---- MODULE Spec2Model ----
(***************************************************************************)
(* Annotation session engine of the YOLO annotation tool (src/annotaor.py).*)
(*                                                                         *)
(* Numbers.  A normalized coordinate is kept as an integer count of        *)
(* half-millionths (Unit == 2 * Micro per 1.0).  The image sides of the    *)
(* model are powers of two, so every coordinate a drawn box gets is a      *)
(* dyadic fraction n/128 and every float operation the program does on it  *)
(* is exact; the model's integer arithmetic is then the program's          *)
(* arithmetic.  The label file keeps six decimals: encoding rounds (to     *)
(* even on a tie, as "%.6f" does on an exactly represented tie), so        *)
(* encoding is not the identity.  The progress percentage is the one float  *)
(* computation whose operands are not dyadic: its division and product     *)
(* are computed digit by digit, with the rounding of a 53-bit significand. *)
(*                                                                         *)
(* Text.  A label file is a sequence of lines, a line the sequence of its  *)
(* whitespace-separated tokens, a token one of                             *)
(*   [k |-> "int",  v |-> n]   text that int() and float() both parse      *)
(*   [k |-> "dec",  v |-> m]   a decimal m/1000000: float() only           *)
(*   [k |-> "word", v |-> 0]   text neither parses                         *)
(* A class name is a sequence of characters (one-letter strings), " " the  *)
(* blank that strip() removes.                                             *)
(***************************************************************************)
EXTENDS Integers, Sequences, FiniteSets, TLC

\* ---------------------------------------------------------------- bounds
\* Boxes the operator draws in one session.
MaxCreates == 2
\* Length the class registry may grow to by add_class.
MaxClasses == 2
\* Images a folder may hold when the progress percentage is computed over it.
MaxImages == 50

\* ------------------------------------------------------- program constants
\* "{x:.6f}": six decimals in a label file.
Micro == 1000000
Unit == 2 * Micro
\* The significand of a Python float (an IEEE 754 double), in bits.
FloatBits == 53
\* ImageViewer.min_box_size and the range of its spin box.
DefaultMinBoxSize == 10
SpinMinBoxSize == 5
SpinMaxBoxSize == 100
\* The display surface (the viewer at its minimum size).
SurfaceW == 600
SurfaceH == 400

\* ------------------------------------------------------------ environment
\* The images folder holds three entries with an image extension, sorted by
\* name; the third one is a file cv2.imread cannot decode.
Listing == <<1, 2, 3>>
Corrupt == {3}
\* shape[:2] of a decoded image, as <<w, h>>.
Shape(id) == IF id = 1 THEN <<64, 64>> ELSE <<32, 32>>
\* Pointer positions on the surface the operator uses.
Points == {<<163, 63>>, <<175, 125>>, <<225, 144>>}
DragStart == <<163, 63>>
\* A position over the lower right part of the picture: image pixel (40, 40)
\* on image 1, (20, 20) on image 2.
FarPoint == <<351, 251>>
NoPoint == <<>>
NoImage == 0

Tok(k, v) == [k |-> k, v |-> v]
Word == Tok("word", 0)
NoFile == [exists |-> FALSE, lines |-> <<>>]
File(ls) == [exists |-> TRUE, lines |-> ls]
LineA == <<Tok("int", 0), Tok("dec", 500000), Tok("dec", 600000), Tok("dec", 500000), Tok("dec", 600000)>>
LineB == <<Tok("int", 1), Tok("dec", 250000), Tok("dec", 250000), Tok("dec", 200000), Tok("dec", 200000)>>
LineBadNumber == <<Tok("int", 0), Tok("word", 0), Tok("dec", 500000), Tok("dec", 200000), Tok("dec", 200000)>>
\* "1.0 0.25 0.25 0.2 0.2": the class written as a decimal.
LineFloatClass == <<Tok("dec", 1000000), Tok("dec", 250000), Tok("dec", 250000), Tok("dec", 200000), Tok("dec", 200000)>>
\* "0 0.5 0.5 1.5 0.2": a width above 1.
LineWide == <<Tok("int", 0), Tok("dec", 500000), Tok("dec", 500000), Tok("dec", 1500000), Tok("dec", 200000)>>
LineGarbage == <<Word>>
LineBlank == <<>>
\* What the output folder may hold when the session starts.
Disks ==
  { [i \in 1..3 |-> NoFile],
    [i \in 1..3 |-> IF i = 1 THEN File(<<LineA, LineGarbage, LineBlank, LineB>>)
                    ELSE IF i = 2 THEN File(<<LineA, LineBadNumber, LineB>>) ELSE NoFile] }
\* An output folder with label files written by another tool.
ForeignDisks ==
  { [i \in 1..3 |-> IF i = 1 THEN File(<<LineA, LineFloatClass, LineB>>)
                    ELSE IF i = 2 THEN File(<<LineWide, LineB>>) ELSE NoFile] }

\* ------------------------------------------------------------- arithmetic
Abs(n) == IF n < 0 THEN -n ELSE n
Min2(a, b) == IF a <= b THEN a ELSE b
Max2(a, b) == IF a >= b THEN a ELSE b
\* int(n / d) for d > 0: truncation toward zero.
Trunc(n, d) == IF n >= 0 THEN n \div d ELSE -((-n) \div d)

\* ------------------------------------------------------------ LabelCodec
\* "{x:.6f}" of a coordinate: the nearest millionth, the even one on a tie.
FormatMicro(a) ==
  LET lo == a \div 2
  IN  IF a % 2 = 0 THEN lo ELSE IF lo % 2 = 0 THEN lo ELSE lo + 1

\* One written line: f"{cls_id} {x:.6f} {y:.6f} {w:.6f} {h:.6f}\n".
EncodeLine(b) ==
  <<Tok("int", b[1]), Tok("dec", FormatMicro(b[2])), Tok("dec", FormatMicro(b[3])),
    Tok("dec", FormatMicro(b[4])), Tok("dec", FormatMicro(b[5]))>>

\* The text save_current_annotations writes for a store.
Encode(anns) == [i \in 1..Len(anns) |-> EncodeLine(anns[i])]

ParsesInt(t) == t.k = "int"
ParsesFloat(t) == t.k \in {"int", "dec"}
\* A float() that keeps five decimals of the text.
ParseFloatCoarse(t) == IF t.k = "int" THEN t.v * Unit ELSE (t.v \div 10) * 20
\* float(token), in half-millionths.
ParseFloat(t) == IF t.k = "int" THEN t.v * Unit ELSE t.v * 2

\* The loop of load_annotations_for_current_image over the lines of a file:
\* a line of other than five tokens is passed over; int() or float() raising
\* on a five-token line leaves the loop through the enclosing except, with
\* the boxes appended so far and a warning.
RECURSIVE LoadLines(_, _)
LoadLines(lines, acc) ==
  IF lines = <<>> THEN [anns |-> acc, err |-> FALSE]
  ELSE LET parts == Head(lines)
       IN  IF Len(parts) # 5 THEN LoadLines(Tail(lines), acc)
           ELSE IF ParsesInt(parts[1]) /\ \A j \in 2..5 : ParsesFloat(parts[j])
                THEN LoadLines(Tail(lines),
                       Append(acc, <<parts[1].v, ParseFloat(parts[2]), ParseFloat(parts[3]),
                                     ParseFloat(parts[4]), ParseFloat(parts[5])>>))
                ELSE [anns |-> acc, err |-> TRUE]

\* -------------------------------------------------------- CoordinateMapper
\* update_display: scale_factor = min(surface_w / w, surface_h / h), kept as
\* the fraction <<numerator, denominator>>.
ScaleFactor(img) ==
  LET w == Shape(img)[1]
      h == Shape(img)[2]
  IN  IF SurfaceW * h <= SurfaceH * w THEN <<SurfaceW, w>> ELSE <<SurfaceH, h>>

\* update_display: offset = (surface - int(side * scale_factor)) // 2.
OffsetX(img) ==
  LET s == ScaleFactor(img) IN (SurfaceW - Trunc(Shape(img)[1] * s[1], s[2])) \div 2
OffsetY(img) ==
  LET s == ScaleFactor(img) IN (SurfaceH - Trunc(Shape(img)[2] * s[1], s[2])) \div 2

\* widget_to_image_coords: NoPoint without an image, else the truncated,
\* clamped image pixel.
widget_to_image_coords(img, p) ==
  IF img = NoImage THEN NoPoint
  ELSE LET s == ScaleFactor(img)
           ix == Trunc((p[1] - OffsetX(img)) * s[2], s[1])
           iy == Trunc((p[2] - OffsetY(img)) * s[2], s[1])
       IN  <<Max2(0, Min2(ix, Shape(img)[1] - 1)), Max2(0, Min2(iy, Shape(img)[2] - 1))>>

\* A rectangle that takes the box's center for its top left corner.
RectFromCorner(b, img) ==
  LET w == Shape(img)[1]
      h == Shape(img)[2]
  IN  <<Trunc(b[2] * w, Unit), Trunc(b[3] * h, Unit),
        Trunc((b[2] + b[4]) * w, Unit), Trunc((b[3] + b[5]) * h, Unit)>>

\* The pixel rectangle <<x1, y1, x2, y2>> of a box on an image, as the hit
\* test and the renderer compute it: int((center -/+ extent/2) * side).
Rect(b, img) ==
  LET w == Shape(img)[1]
      h == Shape(img)[2]
  IN  <<Trunc((2 * b[2] - b[4]) * w, 2 * Unit), Trunc((2 * b[3] - b[5]) * h, 2 * Unit),
        Trunc((2 * b[2] + b[4]) * w, 2 * Unit), Trunc((2 * b[3] + b[5]) * h, 2 * Unit)>>

\* x1 <= x <= x2 and y1 <= y <= y2
Contains(b, img, pt) ==
  LET r == Rect(b, img)
  IN  r[1] <= pt[1] /\ pt[1] <= r[3] /\ r[2] <= pt[2] /\ pt[2] <= r[4]

\* --------------------------------------------------------- AnnotationStore
\* A guard that rejects only a box too small in both dimensions.
TooSmallInBoth(p1, p2, minsz) == Abs(p2[1] - p1[1]) < minsz /\ Abs(p2[2] - p1[2]) < minsz

\* The guard of add_annotation: "Ensure minimum box size".
TooSmall(p1, p2, minsz) == Abs(p2[1] - p1[1]) < minsz \/ Abs(p2[2] - p1[2]) < minsz

\* The tuple add_annotation appends.
NewBox(p1, p2, img, cls) ==
  LET w == Shape(img)[1]
      h == Shape(img)[2]
  IN  <<cls, ((p1[1] + p2[1]) * Unit) \div (2 * w), ((p1[2] + p2[2]) * Unit) \div (2 * h),
        (Abs(p2[1] - p1[1]) * Unit) \div w, (Abs(p2[2] - p1[2]) * Unit) \div h>>

\* A create that puts the new box in front of the stored ones.
add_annotation_in_front(anns, p1, p2, img, cls, minsz) ==
  IF p1 = NoPoint \/ p2 = NoPoint \/ img = NoImage THEN anns
  ELSE IF Abs(p2[1] - p1[1]) < minsz \/ Abs(p2[2] - p1[2]) < minsz THEN anns
  ELSE <<NewBox(p1, p2, img, cls)>> \o anns

\* add_annotation: the store after it.
add_annotation(anns, p1, p2, img, cls, minsz) ==
  IF p1 = NoPoint \/ p2 = NoPoint \/ img = NoImage THEN anns
  ELSE IF TooSmall(p1, p2, minsz) THEN anns
  ELSE Append(anns, NewBox(p1, p2, img, cls))

\* The scan of delete_annotation_at and cycle_class_at from position i: the
\* position of the first box that contains pt, 0 if none does.
RECURSIVE ScanFrom(_, _, _, _)
ScanFrom(anns, img, pt, i) ==
  IF i > Len(anns) THEN 0
  ELSE IF Contains(anns[i], img, pt) THEN i
  ELSE ScanFrom(anns, img, pt, i + 1)

RemoveAt(s, i) == SubSeq(s, 1, i - 1) \o SubSeq(s, i + 1, Len(s))

\* A delete whose scan does not stop at the first hit.
delete_every_hit(anns, img, pt) ==
  IF img = NoImage THEN anns
  ELSE LET Keep(b) == ~Contains(b, img, pt) IN SelectSeq(anns, Keep)

\* delete_annotation_at: the store after it.
delete_annotation_at(anns, img, pt) ==
  IF img = NoImage THEN anns
  ELSE LET i == ScanFrom(anns, img, pt, 1)
       IN  IF i = 0 THEN anns ELSE RemoveAt(anns, i)

\* A reclassification that does not wrap at the end of the registry.
cycle_class_unwrapped(anns, img, names, pt) ==
  IF img = NoImage \/ names = <<>> THEN anns
  ELSE LET i == ScanFrom(anns, img, pt, 1)
       IN  IF i = 0 THEN anns
           ELSE [anns EXCEPT ![i] = <<anns[i][1] + 1, anns[i][2], anns[i][3],
                                      anns[i][4], anns[i][5]>>]

\* cycle_class_at: the store after it.
cycle_class_at(anns, img, names, pt) ==
  IF img = NoImage \/ names = <<>> THEN anns
  ELSE LET i == ScanFrom(anns, img, pt, 1)
       IN  IF i = 0 THEN anns
           ELSE [anns EXCEPT ![i] = <<(anns[i][1] + 1) % Len(names), anns[i][2], anns[i][3],
                                      anns[i][4], anns[i][5]>>]

\* -------------------------------------------------------- SessionNavigator
\* ImageViewer.set_image: self.image after cv2.imread.
set_image(id) == IF id \in Corrupt THEN NoImage ELSE id

\* load_annotations_for_current_image: the store after it, and whether the
\* warning was shown.
load_annotations_for_current_image(files, idx, out, anns, dsk) ==
  IF files = <<>> \/ out = "" THEN [anns |-> anns, err |-> FALSE]
  ELSE IF dsk[files[idx + 1]].exists THEN LoadLines(dsk[files[idx + 1]].lines, <<>>)
  ELSE [anns |-> <<>>, err |-> FALSE]

\* load_current_image: the viewer's image and store after it.
load_current_image(files, idx, out, img, anns, dsk) ==
  IF files = <<>> \/ idx >= Len(files) THEN [image |-> img, anns |-> anns, err |-> FALSE]
  ELSE LET im == set_image(files[idx + 1])
           ld == load_annotations_for_current_image(files, idx, out, anns, dsk)
       IN  IF im # NoImage THEN [image |-> im, anns |-> ld.anns, err |-> ld.err]
           ELSE [image |-> NoImage, anns |-> anns, err |-> FALSE]

\* A save that runs after the index has moved on: it writes the store to the
\* next image's label file.
save_after_index_change(files, idx, out, anns, dsk, io) ==
  IF files = <<>> \/ out = "" THEN [status |-> "skipped", disk |-> dsk]
  ELSE IF io = "makedirs_fails" THEN [status |-> "raised", disk |-> dsk]
  ELSE IF io = "open_fails" THEN [status |-> "open_failed", disk |-> dsk]
  ELSE [status |-> "saved",
        disk |-> [dsk EXCEPT ![files[((idx + 1) % Len(files)) + 1]] = File(Encode(anns))]]

\* save_current_annotations under an I/O outcome io: what it does
\* ("skipped", "raised" out of os.makedirs, "open_failed" with a warning,
\* "saved") and the output folder's files after it.
save_current_annotations(files, idx, out, anns, dsk, io) ==
  IF files = <<>> \/ out = "" THEN [status |-> "skipped", disk |-> dsk]
  ELSE IF io = "makedirs_fails" THEN [status |-> "raised", disk |-> dsk]
  ELSE IF io = "open_fails" THEN [status |-> "open_failed", disk |-> dsk]
  ELSE [status |-> "saved", disk |-> [dsk EXCEPT ![files[idx + 1]] = File(Encode(anns))]]

IOOutcomes == {"ok", "makedirs_fails", "open_fails"}

\* ------------------------------------------------------------ ClassRegistry
RECURSIVE LStrip(_)
LStrip(s) == IF s # <<>> /\ Head(s) = " " THEN LStrip(Tail(s)) ELSE s
RECURSIVE RStrip(_)
RStrip(s) == IF s # <<>> /\ s[Len(s)] = " " THEN RStrip(SubSeq(s, 1, Len(s) - 1)) ELSE s
\* str.strip()
Strip(s) == RStrip(LStrip(s))

InSeq(x, s) == \E i \in 1..Len(s) : s[i] = x

\* load_classes_from_file: [line.strip() for line in f if line.strip()]
RECURSIVE load_classes_from_file(_)
load_classes_from_file(lines) ==
  IF lines = <<>> THEN <<>>
  ELSE IF Strip(Head(lines)) = <<>> THEN load_classes_from_file(Tail(lines))
  ELSE <<Strip(Head(lines))>> \o load_classes_from_file(Tail(lines))

\* update_classes_display: the list's current row after it is refilled.
RowAfterRefill(cls) == IF cls = <<>> THEN -1 ELSE 0
\* on_class_selected, as signalled by the refill: the viewer's current class.
ClassAfterRefill(cls, cur) == IF cls = <<>> THEN cur ELSE 0

\* ------------------------------------------------------- float arithmetic
\* A float in (0, 1) is kept as the binary digits after its point, up to and
\* including the last digit of its significand.
\* The first k binary digits of r / n after the point (0 <= r < n), appended
\* to acc, and the remainder they leave.
RECURSIVE DivBits(_, _, _, _)
DivBits(r, n, k, acc) ==
  IF k = 0 THEN [bits |-> acc, rem |-> r]
  ELSE DivBits((2 * r) % n, n, k - 1, Append(acc, (2 * r) \div n))

\* The zero digits before the first one digit of r / n (0 < r < n).
RECURSIVE LeadingZerosOf(_, _)
LeadingZerosOf(r, n) == IF 2 * r >= n THEN 0 ELSE 1 + LeadingZerosOf(2 * r, n)

\* The digits plus one unit in the last place, and the carry out of them.
RECURSIVE Increment(_)
Increment(bits) ==
  IF bits = <<>> THEN [carry |-> 1, bits |-> <<>>]
  ELSE IF bits[Len(bits)] = 0 THEN [carry |-> 0, bits |-> [bits EXCEPT ![Len(bits)] = 1]]
  ELSE LET up == Increment(SubSeq(bits, 1, Len(bits) - 1))
       IN  [carry |-> up.carry, bits |-> Append(up.bits, 0)]

\* a / n in floats for integers 0 < a < n: the quotient rounded to the nearest
\* float, to the even one on a tie (the rounding never carries up to 1.0 for
\* an n below 2^53).
FloatDiv(a, n) ==
  LET d == DivBits(a, n, LeadingZerosOf(a, n) + FloatBits, <<>>)
      up == 2 * d.rem > n \/ (2 * d.rem = n /\ d.bits[Len(d.bits)] = 1)
  IN  IF up THEN Increment(d.bits).bits ELSE d.bits

\* The exact product of the digits from position i down by the integer k:
\* its integer part and its digits after the point.
RECURSIVE TimesFrom(_, _, _, _)
TimesFrom(bits, k, i, c) ==
  IF i = 0 THEN [int |-> c, bits |-> bits]
  ELSE LET t == bits[i] * k + c
       IN  TimesFrom([bits EXCEPT ![i] = t % 2], k, i - 1, t \div 2)

RECURSIVE BitLen(_)
BitLen(i) == IF i = 0 THEN 0 ELSE 1 + BitLen(i \div 2)
RECURSIVE LeadingZeros(_)
LeadingZeros(bits) ==
  IF bits = <<>> \/ Head(bits) = 1 THEN 0 ELSE 1 + LeadingZeros(Tail(bits))

\* int(q * k) for a float q in (0, 1) and an integer k: the product rounded to
\* FloatBits significant digits (to even on a tie), then truncated.
IntOfProduct(q, k) ==
  LET p == TimesFrom(q, k, Len(q), 0)
      m == IF p.int >= 1 THEN FloatBits - BitLen(p.int)
           ELSE LeadingZeros(p.bits) + FloatBits
  IN  IF m >= Len(p.bits) THEN p.int
      ELSE LET half == p.bits[m + 1] = 1
               rest == \E j \in (m + 2)..Len(p.bits) : p.bits[j] = 1
               odd == IF m >= 1 THEN p.bits[m] = 1 ELSE p.int % 2 = 1
           IN  IF half /\ (rest \/ odd)
               THEN p.int + Increment(SubSeq(p.bits, 1, m)).carry
               ELSE p.int

\* ---------------------------------------------------------------- update_ui
\* update_ui: int((current_image_index + 1) / len(image_files) * 100), and
\* "Progress: 0%" without images.
progress(idx, n) ==
  IF n = 0 THEN 0
  ELSE IF idx + 1 = n THEN 100
  ELSE IntOfProduct(FloatDiv(idx + 1, n), 100)

\* The loop of get_annotations_for_image over the lines of a file: every
\* five-token line is a tuple of five floats; float() raising leaves the loop
\* through the bare except, with the tuples appended so far.
RECURSIVE FloatLines(_, _)
FloatLines(lines, acc) ==
  IF lines = <<>> THEN acc
  ELSE LET parts == Head(lines)
       IN  IF Len(parts) # 5 THEN FloatLines(Tail(lines), acc)
           ELSE IF \A j \in 1..5 : ParsesFloat(parts[j])
                THEN FloatLines(Tail(lines), Append(acc, [j \in 1..5 |-> ParseFloat(parts[j])]))
                ELSE acc

\* update_annotations_display: the boxes the annotations list shows, those
\* whose class index is below the registry's length.
update_annotations_display(anns, cls) ==
  LET Listed(b) == b[1] < Len(cls) IN SelectSeq(anns, Listed)

\* get_annotations_for_image(index)
get_annotations_for_image(files, out, dsk, index) ==
  IF files = <<>> \/ out = "" \/ index >= Len(files) THEN <<>>
  ELSE IF dsk[files[index + 1]].exists
       THEN FloatLines(dsk[files[index + 1]].lines, <<>>)
       ELSE <<>>

\* update_ui: sum(len(get_annotations_for_image(i)) for i in range(n)).
RECURSIVE SumOfCounts(_, _, _, _)
SumOfCounts(files, out, dsk, n) ==
  IF n = 0 THEN 0
  ELSE SumOfCounts(files, out, dsk, n - 1)
         + Len(get_annotations_for_image(files, out, dsk, n - 1))
total_annotations(files, out, dsk) == SumOfCounts(files, out, dsk, Len(files))

\* ------------------------------------------------------------------ state
VARIABLES
  image,                \* ImageViewer.image: the decoded image, NoImage for None
  annotations,          \* ImageViewer.annotations: the AnnotationStore
  current_class,        \* ImageViewer.current_class
  min_box_size,         \* ImageViewer.min_box_size
  class_names,          \* ImageViewer.class_names
  drawing,              \* ImageViewer.drawing
  start_point,          \* ImageViewer.start_point
  end_point,            \* ImageViewer.end_point
  images_folder,        \* YOLOAnnotationTool.images_folder
  output_folder,        \* YOLOAnnotationTool.output_folder
  image_files,          \* YOLOAnnotationTool.image_files
  current_image_index,  \* YOLOAnnotationTool.current_image_index (from 0)
  classes,              \* YOLOAnnotationTool.classes: the ClassRegistry
  current_row,          \* classes_list.currentRow()
  disk,                 \* the label files of the output folder, by image
  running,              \* the session has not ended
  drawn,                \* boxes drawn so far (bounded by MaxCreates)
  last,                 \* the last handler that ran and its pointer input
  save_status,          \* what the save inside the last handler did
  load_error            \* the last handler showed "Error loading annotations"

vars == <<image, annotations, current_class, min_box_size, class_names, drawing,
          start_point, end_point, images_folder, output_folder, image_files,
          current_image_index, classes, current_row, disk, running, drawn,
          last, save_status, load_error>>

viewer_vars == <<image, annotations, current_class, min_box_size, class_names, drawing,
                 start_point, end_point>>
draw_vars == <<drawing, start_point, end_point>>
class_vars == <<classes, class_names, current_row, current_class>>
folder_vars == <<images_folder, output_folder, image_files, current_image_index>>

Did(op) == [op |-> op, at |-> NoPoint, to |-> NoPoint]
DidAt(op, p) == [op |-> op, at |-> p, to |-> NoPoint]
DidFromTo(op, p, q) == [op |-> op, at |-> p, to |-> q]
NoIO == save_status' = "none" /\ load_error' = FALSE

\* The settings blob a session may find at start: no file at all, or the
\* record a previous session left, possibly with fields missing or stale.
NameA == <<"a">>
NameB == <<"b">>
Settings ==
  { [images |-> FALSE, out |-> "", classes |-> <<>>, min |-> 10, index |-> -1],
    [images |-> TRUE, out |-> "ann", classes |-> <<NameA, NameB>>, min |-> 10, index |-> 0],
    [images |-> TRUE, out |-> "ann", classes |-> <<NameA, NameB>>, min |-> 5, index |-> 1],
    [images |-> TRUE, out |-> "ann", classes |-> <<>>, min |-> 10, index |-> 0],
    [images |-> TRUE, out |-> "", classes |-> <<NameA>>, min |-> 10, index |-> 0],
    [images |-> TRUE, out |-> "ann", classes |-> <<NameA>>, min |-> 10, index |-> 7] }

\* QSpinBox.setValue keeps the value inside the spin box's range.
SpinClamp(v) == Max2(SpinMinBoxSize, Min2(v, SpinMaxBoxSize))

\* The state __init__ leaves with the settings blob s, the output folder's
\* files d and the images folder's listing: the fields' initial values, then
\* load_settings.  load_settings loads the image files before it restores
\* output_folder, and loads the current image again only for a stored index
\* that is in range.
Start(s, d, listing) ==
    LET files == IF s.images THEN listing ELSE <<>>
        first == load_current_image(files, 0, "", NoImage, <<>>, d)
        use_index == files # <<>> /\ 0 <= s.index /\ s.index < Len(files)
        idx == IF use_index THEN s.index ELSE 0
        final == IF use_index
                 THEN load_current_image(files, idx, s.out, first.image, first.anns, d)
                 ELSE first
    IN  /\ image = final.image
        /\ annotations = final.anns
        /\ current_class = 0
        /\ min_box_size = SpinClamp(s.min)
        /\ class_names = s.classes
        /\ drawing = FALSE
        /\ start_point = NoPoint
        /\ end_point = NoPoint
        /\ images_folder = IF s.images THEN "imgs" ELSE ""
        /\ output_folder = s.out
        /\ image_files = files
        /\ current_image_index = idx
        /\ classes = s.classes
        /\ current_row = RowAfterRefill(s.classes)
        /\ disk = d
        /\ running = TRUE
        /\ drawn = 0
        /\ last = Did("init")
        /\ save_status = "none"
        /\ load_error = final.err

Init == \E s \in Settings, d \in Disks : Start(s, d, Listing)

\* ---------------------------------------------------------- pointer events
\* mousePressEvent, left button.
mousePressLeft(p) ==
  /\ running /\ image # NoImage
  /\ start_point' = widget_to_image_coords(image, p)
  /\ end_point' = NoPoint
  /\ drawing' = TRUE
  /\ last' = DidAt("press_left", p)
  /\ NoIO
  /\ UNCHANGED <<image, annotations, current_class, min_box_size, class_names,
                 folder_vars, classes, current_row, disk, running, drawn>>

\* mousePressEvent, right button: delete_annotation_at.
mousePressRight(p) ==
  /\ running /\ image # NoImage
  /\ annotations' = delete_annotation_at(annotations, image, widget_to_image_coords(image, p))
  /\ last' = DidAt("press_right", p)
  /\ NoIO
  /\ UNCHANGED <<image, current_class, min_box_size, class_names, draw_vars,
                 folder_vars, classes, current_row, disk, running, drawn>>

\* mousePressEvent, middle button, and wheelEvent: cycle_class_at.
mousePressMiddle(p) ==
  /\ running /\ image # NoImage
  /\ annotations' = cycle_class_at(annotations, image, class_names,
                                   widget_to_image_coords(image, p))
  /\ last' = DidAt("press_middle", p)
  /\ NoIO
  /\ UNCHANGED <<image, current_class, min_box_size, class_names, draw_vars,
                 folder_vars, classes, current_row, disk, running, drawn>>

wheelEvent(p) ==
  /\ running /\ image # NoImage
  /\ annotations' = cycle_class_at(annotations, image, class_names,
                                   widget_to_image_coords(image, p))
  /\ last' = DidAt("wheel", p)
  /\ NoIO
  /\ UNCHANGED <<image, current_class, min_box_size, class_names, draw_vars,
                 folder_vars, classes, current_row, disk, running, drawn>>

\* mouseMoveEvent.
mouseMoveEvent(p) ==
  /\ running /\ image # NoImage
  /\ end_point' = IF drawing /\ start_point # NoPoint
                  THEN widget_to_image_coords(image, p) ELSE end_point
  /\ last' = DidAt("move", p)
  /\ NoIO
  /\ UNCHANGED <<image, annotations, current_class, min_box_size, class_names,
                 drawing, start_point, folder_vars, classes, current_row, disk,
                 running, drawn>>

\* mouseReleaseEvent, left button, while drawing.
mouseReleaseEvent ==
  /\ running /\ drawing
  /\ LET after == add_annotation(annotations, start_point, end_point, image,
                                 current_class, min_box_size)
     IN  /\ after # annotations => drawn < MaxCreates
         /\ annotations' = after
         /\ drawn' = IF after # annotations THEN drawn + 1 ELSE drawn
  /\ drawing' = FALSE
  /\ start_point' = NoPoint
  /\ end_point' = NoPoint
  /\ last' = Did("release")
  /\ NoIO
  /\ UNCHANGED <<image, current_class, min_box_size, class_names, folder_vars,
                 classes, current_row, disk, running>>

\* One whole drag with nothing in between: left press at p, move to q, left
\* release.
LeftDrag(p, q) ==
  /\ running /\ image # NoImage /\ ~drawing
  /\ LET after == add_annotation(annotations, widget_to_image_coords(image, p),
                                 widget_to_image_coords(image, q), image,
                                 current_class, min_box_size)
     IN  /\ after # annotations => drawn < MaxCreates
         /\ annotations' = after
         /\ drawn' = IF after # annotations THEN drawn + 1 ELSE drawn
  /\ last' = DidFromTo("drag", p, q)
  /\ NoIO
  /\ UNCHANGED <<image, current_class, min_box_size, class_names, draw_vars,
                 folder_vars, classes, current_row, disk, running>>

\* clear_all_annotations, confirmed.
clear_all_annotations ==
  /\ running
  /\ annotations' = <<>>
  /\ last' = Did("clear_all")
  /\ NoIO
  /\ UNCHANGED <<image, current_class, min_box_size, class_names, draw_vars,
                 folder_vars, classes, current_row, disk, running, drawn>>

\* update_min_size: the spin box's new value.
update_min_size(v) ==
  /\ running /\ v # min_box_size
  /\ min_box_size' = SpinClamp(v)
  /\ last' = Did("update_min_size")
  /\ NoIO
  /\ UNCHANGED <<image, annotations, current_class, class_names, draw_vars,
                 folder_vars, classes, current_row, disk, running, drawn>>

\* ------------------------------------------------------------ class events
\* What the operator may type into the "Add Class" dialog.
NameInputs == {NameA, <<" ", "b">>, <<" ">>}
\* The lines of the images folder's classes.txt, when it has one.
ClassesTxt == <<NameA, <<" ">>, <<"b", " ">>>>
\* What a class list file may hold, line by line.
\* A class list file that names one class twice.
ClassesDup == <<NameA, <<"a", " ">>>>
ClassFiles == {ClassesTxt, <<>>, ClassesDup}

\* A registry change as the handlers finish it: update_classes_display and
\* generate_class_colors refill the list and copy the names to the viewer.
SetClasses(cls) ==
  /\ classes' = cls
  /\ class_names' = cls
  /\ current_row' = RowAfterRefill(cls)
  /\ current_class' = ClassAfterRefill(cls, current_class)

\* add_class, dialog accepted with the text name.
add_class(name) ==
  /\ running
  /\ IF Strip(name) # <<>> /\ ~InSeq(Strip(name), classes)
     THEN Len(classes) < MaxClasses /\ SetClasses(Append(classes, Strip(name)))
     ELSE UNCHANGED class_vars
  /\ last' = Did("add_class")
  /\ NoIO
  /\ UNCHANGED <<image, annotations, min_box_size, draw_vars, folder_vars, disk,
                 running, drawn>>

\* A removal that also drops the boxes of the removed class from the store.
remove_class_purging ==
  /\ running /\ current_row >= 0
  /\ SetClasses(RemoveAt(classes, current_row + 1))
  /\ LET Keep(b) == b[1] # current_row IN annotations' = SelectSeq(annotations, Keep)
  /\ last' = Did("remove_class")
  /\ NoIO
  /\ UNCHANGED <<image, min_box_size, draw_vars, folder_vars, disk, running, drawn>>

\* remove_class.
remove_class ==
  /\ running /\ current_row >= 0
  /\ SetClasses(RemoveAt(classes, current_row + 1))
  /\ last' = Did("remove_class")
  /\ NoIO
  /\ UNCHANGED <<image, annotations, min_box_size, draw_vars, folder_vars, disk,
                 running, drawn>>

\* load_classes: a class list file picked and read.
load_classes(lines) ==
  /\ running
  /\ SetClasses(load_classes_from_file(lines))
  /\ last' = Did("load_classes")
  /\ NoIO
  /\ UNCHANGED <<image, annotations, min_box_size, draw_vars, folder_vars, disk,
                 running, drawn>>

\* on_class_selected, from a click on another row of the class list.
on_class_selected(row) ==
  /\ running /\ 0 <= row /\ row < Len(classes) /\ row # current_row
  /\ current_row' = row
  /\ current_class' = row
  /\ last' = Did("on_class_selected")
  /\ NoIO
  /\ UNCHANGED <<image, annotations, min_box_size, class_names, draw_vars,
                 folder_vars, classes, disk, running, drawn>>

\* cycle_class (keys W and S): setCurrentRow, then on_class_selected.
cycle_class(direction) ==
  /\ running /\ classes # <<>>
  /\ LET row == IF current_row < 0 THEN 0 ELSE current_row
         new_row == (row + direction) % Len(classes)
     IN  current_row' = new_row /\ current_class' = new_row
  /\ last' = Did("cycle_class")
  /\ NoIO
  /\ UNCHANGED <<image, annotations, min_box_size, class_names, draw_vars,
                 folder_vars, classes, disk, running, drawn>>

\* -------------------------------------------------------------- navigation
\* An index that stops at the first image and runs past the last one.
unwrapped_index(idx, delta, n) == Max2(0, idx + delta)

\* (self.current_image_index + delta) % len(self.image_files)
wrapped_index(idx, delta, n) == (idx + delta) % n

\* previous_image (delta -1) and next_image (delta 1) under the I/O outcome
\* io of the save: the save, then the index, then the load.  An exception out
\* of os.makedirs leaves the handler before the index changes; the session
\* then goes on or is ended, as the binding decides.
advance(op, delta, io) ==
  /\ running
  /\ last' = Did(op)
  /\ IF image_files = <<>>
     THEN /\ NoIO
          /\ UNCHANGED <<viewer_vars, folder_vars, classes, current_row, disk,
                         running, drawn>>
     ELSE LET sv == save_current_annotations(image_files, current_image_index,
                                             output_folder, annotations, disk, io)
              idx == wrapped_index(current_image_index, delta, Len(image_files))
              ld == load_current_image(image_files, idx, output_folder, image,
                                       annotations, sv.disk)
          IN  /\ save_status' = sv.status
              /\ IF sv.status = "raised"
                 THEN /\ running' \in BOOLEAN
                      /\ load_error' = FALSE
                      /\ UNCHANGED <<viewer_vars, folder_vars, classes, current_row,
                                     disk, drawn>>
                 ELSE /\ disk' = sv.disk
                      /\ current_image_index' = idx
                      /\ image' = ld.image
                      /\ annotations' = ld.anns
                      /\ load_error' = ld.err
                      /\ UNCHANGED <<current_class, min_box_size, class_names,
                                     draw_vars, images_folder, output_folder,
                                     image_files, classes, current_row, running, drawn>>

previous_image(io) == advance("previous_image", -1, io)
next_image(io) == advance("next_image", 1, io)

\* The Save button: save_current_annotations as a handler of its own.
save_clicked(io) ==
  /\ running
  /\ LET sv == save_current_annotations(image_files, current_image_index,
                                        output_folder, annotations, disk, io)
     IN  /\ save_status' = sv.status
         /\ disk' = sv.disk
         /\ running' \in IF sv.status = "raised" THEN BOOLEAN ELSE {TRUE}
  /\ load_error' = FALSE
  /\ last' = Did("save_clicked")
  /\ UNCHANGED <<viewer_vars, folder_vars, classes, current_row, drawn>>

\* browse_images_folder, a folder with the image files listing picked;
\* has_txt: the folder has a classes.txt.  load_image_files runs before the
\* output folder is defaulted.
browse_folder(listing, has_txt) ==
  /\ running
  /\ LET ld == load_current_image(listing, 0, output_folder, image, annotations, disk)
     IN  /\ image' = ld.image
         /\ annotations' = ld.anns
         /\ load_error' = ld.err
  /\ images_folder' = IF listing = <<>> THEN "empty" ELSE "imgs"
  /\ image_files' = listing
  /\ current_image_index' = 0
  /\ output_folder' = IF output_folder = "" THEN "ann" ELSE output_folder
  /\ IF has_txt THEN SetClasses(load_classes_from_file(ClassesTxt))
     ELSE UNCHANGED class_vars
  /\ save_status' = "none"
  /\ last' = Did("browse_images_folder")
  /\ UNCHANGED <<min_box_size, draw_vars, disk, running, drawn>>

\* The images folder of the session picked.
browse_images_folder(has_txt) == browse_folder(Listing, has_txt)
\* A folder without image files picked.
browse_empty_folder == browse_folder(<<>>, FALSE)

\* browse_output_folder, the output folder picked.
browse_output_folder ==
  /\ running /\ output_folder = ""
  /\ output_folder' = "ann"
  /\ last' = Did("browse_output_folder")
  /\ NoIO
  /\ UNCHANGED <<viewer_vars, images_folder, image_files, current_image_index,
                 classes, current_row, disk, running, drawn>>

\* closeEvent: the save of the current image, then the session ends.
closeEvent(io) ==
  /\ running
  /\ LET sv == IF image_files # <<>>
               THEN save_current_annotations(image_files, current_image_index,
                                             output_folder, annotations, disk, io)
               ELSE [status |-> "none", disk |-> disk]
     IN  /\ save_status' = sv.status
         /\ disk' = sv.disk
         /\ running' \in IF sv.status = "raised" THEN BOOLEAN ELSE {FALSE}
  /\ load_error' = FALSE
  /\ last' = Did("closeEvent")
  /\ UNCHANGED <<viewer_vars, folder_vars, classes, current_row, drawn>>

\* --------------------------------------------------------- specifications
PointerNext ==
  \/ \E p \in Points : mousePressLeft(p)
  \/ \E p \in Points : mousePressRight(p)
  \/ \E p \in Points : mousePressMiddle(p)
  \/ \E p \in Points : wheelEvent(p)
  \/ \E p \in Points : mouseMoveEvent(p)
  \/ mouseReleaseEvent

ClassNext ==
  \/ \E n \in NameInputs : add_class(n)
  \/ remove_class
  \/ \E f \in ClassFiles : load_classes(f)
  \/ \E r \in 0..(MaxClasses - 1) : on_class_selected(r)
  \/ \E d \in {-1, 1} : cycle_class(d)

NavNext ==
  \/ \E io \in IOOutcomes : previous_image(io)
  \/ \E io \in IOOutcomes : next_image(io)
  \/ \E io \in IOOutcomes : save_clicked(io)
  \/ \E t \in BOOLEAN : browse_images_folder(t)
  \/ browse_output_folder
  \/ \E io \in IOOutcomes : closeEvent(io)

\* Every handler of the session.
Next ==
  \/ PointerNext
  \/ ClassNext
  \/ NavNext
  \/ clear_all_annotations
  \/ \E v \in {SpinMinBoxSize, DefaultMinBoxSize} : update_min_size(v)

Spec == Init /\ [][Next]_vars

\* Editing one image: whole drags, deletes, reclassifications, the class
\* selection and the minimum box size.
NextEdit ==
  \/ \E p, q \in Points : LeftDrag(p, q)
  \/ \E p \in Points : mousePressRight(p)
  \/ \E p \in Points : mousePressMiddle(p)
  \/ \E p \in Points : wheelEvent(p)
  \/ \E r \in 0..(MaxClasses - 1) : on_class_selected(r)
  \/ clear_all_annotations
  \/ \E v \in {SpinMinBoxSize, DefaultMinBoxSize} : update_min_size(v)

SpecEdit == Init /\ [][NextEdit]_vars

\* Navigating and saving, with whole drags from one corner as the edits.
NextNav ==
  \/ NavNext
  \/ \E q \in Points : LeftDrag(DragStart, q)

SpecNav == Init /\ [][NextNav]_vars

\* Visiting without editing: every navigation handler, over the output
\* folders of Disks and ForeignDisks, and the pick of a folder without images.
InitVisit == \E s \in Settings, d \in Disks \cup ForeignDisks : Start(s, d, Listing)
NextVisit ==
  \/ NavNext
  \/ browse_empty_folder

SpecVisit == InitVisit /\ [][NextVisit]_vars

\* Editing the class registry while boxes are drawn and saved.
NextClass ==
  \/ ClassNext
  \/ \E q \in Points : LeftDrag(DragStart, q)
  \/ \E io \in IOOutcomes : save_clicked(io)

SpecClass == Init /\ [][NextClass]_vars

\* The pointer events of a drag, one by one, interleaved with the advance
\* keys, in a session restored without an output folder (no label file is
\* read or written).
DragPoints == {DragStart, FarPoint}
InitDrag == \E s \in Settings, d \in Disks : s.out = "" /\ Start(s, d, Listing)
NextDrag ==
  \/ \E p \in DragPoints : mousePressLeft(p)
  \/ \E p \in DragPoints : mouseMoveEvent(p)
  \/ mouseReleaseEvent
  \/ previous_image("ok")
  \/ next_image("ok")

SpecDrag == InitDrag /\ [][NextDrag]_vars

\* Stepping through a folder of up to MaxImages images, no output folder
\* set: the settings blob names the images folder only.
FolderOnly ==
  [images |-> TRUE, out |-> "", classes |-> <<>>, min |-> DefaultMinBoxSize, index |-> 0]
InitProgress ==
  \E n \in 0..MaxImages : Start(FolderOnly, [i \in 1..3 |-> NoFile], [i \in 1..n |-> i])
NextProgress ==
  \/ previous_image("ok")
  \/ next_image("ok")

SpecProgress == InitProgress /\ [][NextProgress]_vars

\* ------------------------------------------------------------------ claims
AdvanceOps == {"previous_image", "next_image"}
Delta(op) == IF op = "next_image" THEN 1 ELSE -1
\* The image that is current, and the one that was current before an advance.
Current == image_files[current_image_index + 1]
Outgoing(op) == image_files[((current_image_index - Delta(op)) % Len(image_files)) + 1]
\* The label file of image id in the output folder out: none without a folder.
LabelFile(out, dsk, id) == IF out = "" THEN NoFile ELSE dsk[id]
\* The least element of a non-empty set of positions.
Least(H) == CHOOSE k \in H : \A j \in H : k <= j
\* The positions of the boxes of the store that contain the image point pt.
Hits(pt) == {i \in 1..Len(annotations) : Contains(annotations[i], image, pt)}
\* The image point of the last pointer event, before and after the step.
PointAt == widget_to_image_coords(image, last.at)
PointTo == widget_to_image_coords(image, last.to)


\* The decoding the specification describes: the boxes of the well-formed
\* lines, in file order.
WellFormed(parts) ==
  /\ Len(parts) = 5
  /\ parts[1].k = "int" /\ parts[1].v >= 0
  /\ \A j \in 2..5 : parts[j].k \in {"int", "dec"}
BoxOfLine(parts) ==
  <<parts[1].v, ParseFloat(parts[2]), ParseFloat(parts[3]), ParseFloat(parts[4]),
    ParseFloat(parts[5])>>
DecodeWellFormed(lines) ==
  LET good == SelectSeq(lines, WellFormed)
  IN  [i \in 1..Len(good) |-> BoxOfLine(good[i])]

C2_StoreReplacedOnLoad ==
  (last.op \in AdvanceOps \cup {"browse_images_folder", "init"}
     /\ image_files # <<>> /\ save_status # "raised")
    => annotations = LoadLines(LabelFile(output_folder, disk, Current).lines, <<>>).anns

\* C3: an advance whose save meets an I/O failure leaves the session running
\* and still moves to and loads the next or previous image.
C3_SaveFailureSwallowed ==
  [][(last'.op \in AdvanceOps /\ image_files # <<>>
        /\ save_status' \in {"open_failed", "raised"})
       => /\ running'
          /\ current_image_index' = (current_image_index + Delta(last'.op)) % Len(image_files)
          /\ image' = set_image(image_files'[current_image_index' + 1])]_vars

\* C4: after an advance has loaded an image from an existing label file, the
\* store is exactly the boxes of the file's well-formed lines, in file order,
\* and no error was shown.
C4_MalformedLinesDropped ==
  (last.op \in AdvanceOps /\ image_files # <<>> /\ save_status # "raised"
     /\ image # NoImage /\ output_folder # "" /\ disk[Current].exists)
    => /\ annotations = DecodeWellFormed(disk[Current].lines)
       /\ ~load_error

\* C5: a right press removes the first box, in insertion order, whose
\* rectangle contains the point, and nothing else; the boxes before it and
\* after it keep their values and order; without such a box the store is
\* unchanged.
C5_DeleteFirstHit ==
  [][last'.op = "press_right"
       => LET H == Hits(widget_to_image_coords(image, last'.at))
          IN  IF H = {} THEN annotations' = annotations
              ELSE /\ Len(annotations') = Len(annotations) - 1
                   /\ \A i \in 1..Len(annotations') :
                        annotations'[i] = IF i < Least(H) THEN annotations[i]
                                          ELSE annotations[i + 1]]_vars

\* C5's case: after a right press a box containing the point is still stored:
\* several boxes overlapped the point and one was removed.
C5_Witness ==
  /\ last.op = "press_right"
  /\ Hits(PointAt) # {}

\* C6: a middle press or wheel turn replaces the class of the first box
\* containing the point by (class + 1) mod registry length and changes nothing
\* else; it changes nothing with an empty registry or without a hit; the box it
\* changes is the box a delete at the same point removes.
C6_CycleFirstHit ==
  [][last'.op \in {"press_middle", "wheel"}
       => LET pt == widget_to_image_coords(image, last'.at)
              H == Hits(pt)
          IN  IF class_names = <<>> \/ H = {} THEN annotations' = annotations
              ELSE /\ Len(annotations') = Len(annotations)
                   /\ \A i \in 1..Len(annotations) :
                        annotations'[i] =
                          IF i = Least(H)
                          THEN <<(annotations[i][1] + 1) % Len(class_names),
                                 annotations[i][2], annotations[i][3],
                                 annotations[i][4], annotations[i][5]>>
                          ELSE annotations[i]
                   /\ RemoveAt(annotations', Least(H))
                        = delete_annotation_at(annotations, image, pt)]_vars

\* C6's case: after a wheel turn with a registry of two classes, two stored
\* boxes contain the point and the first of them has wrapped to class 0.
C6_Witness ==
  /\ last.op = "wheel" /\ Len(class_names) = 2
  /\ Cardinality(Hits(PointAt)) >= 2
  /\ annotations[Least(Hits(PointAt))][1] = 0

\* C7: a create whose rectangle is narrower or lower than min_box_size
\* leaves the store as it was.
C7_DegenerateRejected ==
  [][last'.op = "drag"
       => LET p1 == widget_to_image_coords(image, last'.at)
              p2 == widget_to_image_coords(image, last'.to)
          IN  (Abs(p2[1] - p1[1]) < min_box_size \/ Abs(p2[2] - p1[2]) < min_box_size)
                => annotations' = annotations]_vars

\* C7's case: create(10, 10, 12, 20) with class 0 and min_box_size 10 has been
\* tried on a store that holds boxes.
C7_Witness ==
  /\ last.op = "drag" /\ image = 1 /\ min_box_size = 10 /\ current_class = 0
  /\ PointAt = <<10, 10>> /\ PointTo = <<12, 20>>
  /\ annotations # <<>>

\* C8: a create that is not rejected appends exactly one box, of the selected
\* class, after the boxes already stored, which stay as they were.
C8_CreateAppends ==
  [][last'.op = "drag"
       => LET p1 == widget_to_image_coords(image, last'.at)
              p2 == widget_to_image_coords(image, last'.to)
          IN  (Abs(p2[1] - p1[1]) >= min_box_size /\ Abs(p2[2] - p1[2]) >= min_box_size)
                => /\ Len(annotations') = Len(annotations) + 1
                   /\ annotations'[Len(annotations) + 1][1] = current_class
                   /\ \A i \in 1..Len(annotations) : annotations'[i] = annotations[i]]_vars

\* C8's case: an accepted create with class 1 selected has been appended
\* after other boxes.
C8_Witness ==
  /\ last.op = "drag" /\ current_class = 1
  /\ Abs(PointTo[1] - PointAt[1]) >= min_box_size
  /\ Abs(PointTo[2] - PointAt[2]) >= min_box_size
  /\ Len(annotations) >= 2
  /\ annotations[Len(annotations)][1] = 1
  /\ annotations[1][1] = 0

\* C9: an advance over a non-empty list sets the index to (index + delta) mod
\* length; over an empty list it changes nothing.
C9_AdvanceWraps ==
  [][last'.op \in AdvanceOps
       => IF image_files = <<>>
          THEN UNCHANGED <<viewer_vars, folder_vars, classes, current_row, disk, running>>
          ELSE current_image_index'
                 = (current_image_index + Delta(last'.op)) % Len(image_files)]_vars

\* C10: every line a save writes has a class index below the length of the
\* class registry at that time.
C10_WrittenClassInRegistry ==
  [][(save_status' = "saved")
       => \A i \in 1..Len(disk'[Current].lines) :
            disk'[Current].lines[i][1].v < Len(classes)]_vars

\* The Box invariant: a non-negative class index, the center and the extent
\* in [0, 1], a width and a height above 0.
BoxInvariant(b) ==
  /\ b[1] >= 0
  /\ \A j \in 2..5 : 0 <= b[j] /\ b[j] <= Unit
  /\ b[4] > 0 /\ b[5] > 0

\* C11: in every reachable state every box of the store, drawn or loaded,
\* satisfies the Box invariant.
C11_StoredBoxesValid ==
  \A i \in 1..Len(annotations) : BoxInvariant(annotations[i])

\* C12: remove_class removes the class at the selected row only and leaves
\* the store and the label files as they were (no box deleted, no class index
\* renumbered); a save that writes then writes one line per box of the store,
\* with the box's class index, whatever the registry holds.
C12_RemoveKeepsStore ==
  [][/\ last'.op = "remove_class"
          => /\ annotations' = annotations
             /\ disk' = disk
             /\ Len(classes') = Len(classes) - 1
             /\ \A i \in 1..Len(classes') :
                  classes'[i] = IF i < current_row + 1 THEN classes[i] ELSE classes[i + 1]
     /\ (last'.op = "save_clicked" /\ save_status' = "saved")
          => /\ Len(disk'[Current].lines) = Len(annotations)
             /\ \A i \in 1..Len(annotations) :
                  disk'[Current].lines[i][1].v = annotations[i][1]]_vars

\* C12's case: remove_class has left a registry of one class, and the box
\* drawn with class 1 selected is still in the store, though the annotations
\* list no longer shows it.
C12_Witness ==
  /\ last.op = "remove_class" /\ Len(classes) = 1
  /\ \E i \in 1..Len(annotations) :
       annotations[i] = NewBox(<<10, 10>>, <<20, 23>>, 1, 1)
  /\ Len(update_annotations_display(annotations, classes)) < Len(annotations)

\* No empty name and no two equal names.
ValidRegistry(cls) ==
  /\ \A i \in 1..Len(cls) : cls[i] # <<>>
  /\ \A i, j \in 1..Len(cls) : cls[i] = cls[j] => i = j

\* C13: the class registry never holds an empty name or two equal names, and
\* an add_class either leaves the registry as it was or appends a trimmed name
\* that is not empty and was not in it.
C13_RegistryUnique ==
  /\ [](ValidRegistry(classes))
  /\ [][last'.op = "add_class"
          => \/ classes' = classes
             \/ \E n \in NameInputs :
                  /\ Strip(n) # <<>> /\ ~InSeq(Strip(n), classes)
                  /\ classes' = Append(classes, Strip(n))]_vars

\* C14: encoding the store, decoding the text and encoding again gives the
\* first text; the decoded store has as many boxes as the store, with the same
\* class indices in the same order.
C14_EncodeIdempotent ==
  LET text == Encode(annotations)
      back == LoadLines(text, <<>>)
  IN  /\ ~back.err
      /\ Encode(back.anns) = text
      /\ Len(back.anns) = Len(annotations)
      /\ \A i \in 1..Len(annotations) : back.anns[i][1] = annotations[i][1]

\* C14's case: the store holds a loaded box and a drawn one with a coordinate
\* that six decimals do not hold, so that decoding the text does not give the
\* store back.
C14_Witness ==
  /\ Len(annotations) >= 2
  /\ \E i \in 1..Len(annotations) : \E j \in 2..5 : annotations[i][j] % 2 = 1
  /\ LoadLines(Encode(annotations), <<>>).anns # annotations

RECURSIVE LoaderCount(_)
LoaderCount(n) ==
  IF n = 0 THEN 0
  ELSE LoaderCount(n - 1)
         + Len(LoadLines(LabelFile(output_folder, disk, image_files[n]).lines, <<>>).anns)

\* C16: the total the statistics show is the sum, over the images of the
\* list, of the boxes the loader accepts from the image's label file; a
\* missing file counts 0 and the store is not counted.
C16_AggregateCountsDecoded ==
  total_annotations(image_files, output_folder, disk) = LoaderCount(Len(image_files))

\* C17: the progress shown is floor((index + 1) * 100 / length) over a
\* non-empty list, hence between 1 and 100 and 100 at the last image only, and
\* 0 over an empty list.
C17_ProgressIsFloor ==
  LET n == Len(image_files)
      shown == progress(current_image_index, n)
  IN  IF n = 0 THEN shown = 0
      ELSE /\ shown = ((current_image_index + 1) * 100) \div n
           /\ 1 <= shown /\ shown <= 100
           /\ (shown = 100) <=> (current_image_index = n - 1)

\* The boxes the loader reads from a label file (none from a missing one).
Persisted(f) == LoadLines(f.lines, <<>>).anns

\* C18: with no create, delete, reclassification or clear in the session, no
\* step of it (folder selection, advance, save, close) changes the boxes any
\* image's label file decodes to.
C18_VisitKeepsPersisted ==
  [][\A i \in DOMAIN disk : Persisted(disk'[i]) = Persisted(disk[i])]_vars

\* The pixel pt lies inside the bounds of image img.
InBounds(pt, img) ==
  /\ 0 <= pt[1] /\ pt[1] < Shape(img)[1]
  /\ 0 <= pt[2] /\ pt[2] < Shape(img)[2]

\* C19: whenever a left release appends a box, both corners of the drag lie
\* inside the pixel bounds of the image that is current at the release, and
\* the box's center and extent are in [0, 1].
C19_ReleaseInsideImage ==
  [][(last'.op = "release" /\ Len(annotations') = Len(annotations) + 1)
       => /\ InBounds(start_point, image)
          /\ InBounds(end_point, image)
          /\ \A j \in 2..5 : /\ 0 <= annotations'[Len(annotations')][j]
                              /\ annotations'[Len(annotations')][j] <= Unit]_vars

\* C20: the index is a position of the image list when the list is not
\* empty, and 0 when it is.
C20_IndexValid ==
  IF image_files = <<>> THEN current_image_index = 0
  ELSE 0 <= current_image_index /\ current_image_index < Len(image_files)

\* C20's case: previous_image has wrapped from the first image to the last
\* one.
C20_Witness ==
  /\ last.op = "previous_image" /\ save_status # "raised"
  /\ image_files # <<>>
  /\ current_image_index = Len(image_files) - 1
====
